---- MODULE Spec2Model ----
(***************************************************************************)
(* FlexCache (src/src/flexcache.c) over BCache (src/src/bcache.h) with the *)
(* LRU, FIFO and Random policies, as a state machine.  One action per      *)
(* public operation; every operation runs to completion in one step.       *)
(*                                                                         *)
(* A node is the record [key, val, size, exp]: bcache_node.key,            *)
(* flexcache_entry.user_value, bcache_node.byte_size and                   *)
(* flexcache_entry.expires_at_ms.  A node pointer is the node's key (keys  *)
(* are unique among linked nodes); the null pointer is NULL.  Value        *)
(* handles given by the host are non-null.                                 *)
(***************************************************************************)
EXTENDS Integers, Sequences, FiniteSets, TLC

VARIABLES
    host,         \* the embedding: which keys, values, clock range, policies, list build
    cfg,          \* the arguments of flexcache_init
    touch_fn,     \* flexcache.touch_fn: "null", "lru", "fifo" or "random"
    pop_fn,       \* flexcache.pop_fn
    list,         \* bcache.list, head first
    hashmap,      \* bcache.hashmap: the keys in the hash index
    item_count,   \* bcache.item_count
    total_bytes,  \* bcache.total_bytes
    last_scan_ms, \* flexcache.last_scan_ms
    now,          \* what now_fn returns
    phase,        \* "live", "destroyed" (flexcache_destroy returned) or "crashed"
    owed,         \* per key: successful inserts whose on_delete has not fired yet
    liveK,        \* buffers returned by key_copy and not yet given to key_free
    liveV,        \* buffers returned by value_copy and not yet given to value_free
    byUse,        \* observer: the present keys, least recently used (got or inserted) first
    byInsert,     \* observer: the present keys, oldest insert first
    sweptAt,      \* observer: the clock at the last sweep maybe_scan_and_clean ran, or -1
    lastArgs,     \* observer: <<ttl, absolute expiry>> of the last operation, an insert
    lastTrace,    \* observer: the hook calls and node visits of the last operation
    last          \* the last operation: [op, key, rc, path, gone]; gone counts the
                  \* nodes it destroyed

vars == <<host, cfg, touch_fn, pop_fn, list, hashmap, item_count, total_bytes,
          last_scan_ms, now, phase, owed, liveK, liveV, byUse, byInsert, sweptAt,
          lastArgs, lastTrace, last>>

----------------------------------------------------------------------------
(* Bounds of the model *)

MaxKeys == 3
MaxVal == 2
MaxSize == 2
MaxTime == 1
MaxTtl == 1
MaxRng == 2
LimItems == 2
LimBytes == 3
Interval == 1
\* the largest instant of the modelled clock type (UINT64_MAX in the source)
ClockMax == 15
MaxAbs == 2
Horizon == 3

NULL == 0

----------------------------------------------------------------------------
(* The list (the DL_ macros of utlist), as the sequence of linked nodes *)

KeysOf(l) == {l[i].key : i \in 1..Len(l)}

IndexOf(l, k) == CHOOSE i \in 1..Len(l) : l[i].key = k

NodeOf(l, k) == l[IndexOf(l, k)]

\* c->list
HeadOf(l) == IF Len(l) = 0 THEN NULL ELSE l[1].key

\* n->next: the tail's next is NULL in utlist's DL_ list and the head in a
\* circular build of it
NextOf(l, k, circular) ==
    LET i == IndexOf(l, k)
    IN IF i < Len(l) THEN l[i + 1].key
       ELSE IF circular THEN l[1].key ELSE NULL

DL_DELETE(l, k) == SelectSeq(l, LAMBDA n : n.key # k)

\* mutant: the node is linked in at the head
DL_APPEND_AtHead(l, n) == <<n>> \o l

DL_APPEND(l, n) == Append(l, n)

SumSizes(l) == LET RECURSIVE S(_)
                   S(i) == IF i = 0 THEN 0 ELSE l[i].size + S(i - 1)
               IN S(Len(l))

----------------------------------------------------------------------------
(* The working state of one operation: the container, the hook accounting *)
(* and the hook calls made so far (trace).  ub is set when the operation  *)
(* read through a null node pointer.                                      *)

Cur == [list |-> list, hashmap |-> hashmap, item_count |-> item_count,
        total_bytes |-> total_bytes, owed |-> owed, liveK |-> liveK,
        liveV |-> liveV, byUse |-> byUse, byInsert |-> byInsert,
        trace |-> <<>>, gone |-> 0, ub |-> FALSE]

Ev(m, e) == [m EXCEPT !.trace = Append(@, e)]

Without(q, k) == SelectSeq(q, LAMBDA x : x # k)

\* the observers' view of a node leaving, of a new node, and of a hit; a host
\* keeps the observers it names in host.observe
Forget(m, k) == [m EXCEPT !.byUse = Without(@, k), !.byInsert = Without(@, k)]

Remember(m, k) ==
    [m EXCEPT !.byUse = IF "use" \in host.observe THEN Append(@, k) ELSE @,
              !.byInsert = IF "insert" \in host.observe THEN Append(@, k) ELSE @]

Used(m, k) ==
    [m EXCEPT !.byUse = IF "use" \in host.observe THEN Append(Without(@, k), k) ELSE @]

----------------------------------------------------------------------------
(* bcache.h *)

\* mutant: the lookup never finds the key
bcache_get_Miss(m, k) == NULL

\* mutant: an entry past its expiry is not found
bcache_get_MissExpired(m, k) ==
    IF /\ k # NULL /\ k \in m.hashmap
       /\ ~(NodeOf(m.list, k).exp # 0 /\ NodeOf(m.list, k).exp <= now)
    THEN k ELSE NULL

\* HASH_FIND in bcache_get / bcache_insert
bcache_get(m, k) == IF k # NULL /\ k \in m.hashmap THEN k ELSE NULL

\* mutant: the byte size of the new node is not added to total_bytes
bcache_insert_NoBytes(m, n) ==
    IF bcache_get(m, n.key) # NULL THEN m
    ELSE [m EXCEPT !.hashmap = @ \cup {n.key},
                   !.list = DL_APPEND(@, n),
                   !.item_count = @ + 1]

bcache_insert(m, n) ==
    IF bcache_get(m, n.key) # NULL THEN m
    ELSE [m EXCEPT !.hashmap = @ \cup {n.key},
                   !.list = DL_APPEND(@, n),
                   !.item_count = @ + 1,
                   !.total_bytes = @ + n.size]

\* mutant: total_bytes is not decremented
bcache_remove_node_KeepsBytes(m, k) ==
    [m EXCEPT !.hashmap = @ \ {k},
              !.list = DL_DELETE(@, k),
              !.item_count = @ - 1]

\* mutant: item_count is not decremented
bcache_remove_node_KeepsCount(m, k) ==
    [m EXCEPT !.hashmap = @ \ {k},
              !.list = DL_DELETE(@, k),
              !.total_bytes = @ - NodeOf(m.list, k).size]

bcache_remove_node(m, k) ==
    [m EXCEPT !.hashmap = @ \ {k},
              !.list = DL_DELETE(@, k),
              !.item_count = @ - 1,
              !.total_bytes = @ - NodeOf(m.list, k).size]

DL_PREPEND(l, n) == <<n>> \o l

\* mutant: the node changes places with the head
bcache_move_front_Swaps(m, k) ==
    IF HeadOf(m.list) = k THEN m
    ELSE LET i == IndexOf(m.list, k)
         IN [m EXCEPT !.list = [j \in 1..Len(@) |->
                                   IF j = 1 THEN @[i] ELSE IF j = i THEN @[1] ELSE @[j]]]

\* c->list == n returns at once
bcache_move_front(m, k) ==
    IF HeadOf(m.list) = k THEN m
    ELSE [m EXCEPT !.list = DL_PREPEND(DL_DELETE(@, k), NodeOf(m.list, k))]

\* mutant: the node is unlinked and not appended again
bcache_move_back_Drops(m, k) == [m EXCEPT !.list = DL_DELETE(@, k)]

bcache_move_back(m, k) ==
    [m EXCEPT !.list = DL_APPEND(DL_DELETE(@, k), NodeOf(m.list, k))]

----------------------------------------------------------------------------
(* flexcache.c: internal helpers *)

key_free(m, k) ==
    [Ev(m, <<"key_free", k>>) EXCEPT !.liveK = IF cfg.key_copy THEN @ - 1 ELSE @]

value_free(m, k) ==
    [Ev(m, <<"value_free", k>>) EXCEPT !.liveV = IF cfg.value_copy THEN @ - 1 ELSE @]

\* mutant: the hook is called twice
ondelete_Twice(m, k) ==
    LET n == NodeOf(m.list, k)
        e == <<"ondelete", k, n.val, n.size, k \in m.hashmap, m.item_count>>
    IN [Ev(Ev(m, e), e) EXCEPT !.owed[k] = @ - 2]

\* on_delete(key, key_len, user_value, byte_size): the event also records whether
\* the node was still linked and counted when the hook ran
ondelete(m, k) ==
    LET n == NodeOf(m.list, k)
    IN [Ev(m, <<"ondelete", k, n.val, n.size, k \in m.hashmap, m.item_count>>)
          EXCEPT !.owed[k] = @ - 1]

\* mutant: the buffers are freed before on_delete runs
delete_node_FreesFirst(m, k) ==
    LET m1 == IF cfg.key_free THEN key_free(m, k) ELSE m
        m2 == IF cfg.value_free THEN value_free(m1, k) ELSE m1
        m3 == IF cfg.ondelete THEN ondelete(m2, k) ELSE m2
        m4 == Forget(bcache_remove_node(m3, k), k)
    IN [m4 EXCEPT !.gone = @ + 1]

delete_node(m, k) ==
    LET m1 == IF cfg.ondelete THEN ondelete(m, k) ELSE m
        m2 == Forget(bcache_remove_node(m1, k), k)
        m3 == IF cfg.key_free THEN key_free(m2, k) ELSE m2
        m4 == IF cfg.value_free THEN value_free(m3, k) ELSE m3
    IN [m4 EXCEPT !.gone = @ + 1]

\* mutant: an expiry of 0 is an instant like any other
IsExpired_ZeroExpires(n, now_ms) == n.exp <= now_ms

\* mutant: the expiry instant itself is not yet expired
IsExpired_Exclusive(n, now_ms) == n.exp # 0 /\ n.exp < now_ms

\* e && e->expires_at_ms && e->expires_at_ms <= now_ms
IsExpired(n, now_ms) == n.exp # 0 /\ n.exp <= now_ms

\* the do-while of remove_expired, entered at node n with the local head
RECURSIVE remove_expired_loop(_, _, _, _)
remove_expired_loop(m, n, head, now_ms) ==
    LET is_last == (NextOf(m.list, n, host.circular) = head) \/ (m.item_count = 1)
        next == NextOf(m.list, n, host.circular)
        exp == IsExpired(NodeOf(m.list, n), now_ms)
        m0 == Ev(m, <<"visit", n>>)
        m1 == IF exp THEN delete_node(m0, n) ELSE m0
        head1 == IF exp THEN HeadOf(m1.list) ELSE head
    IN IF exp /\ head1 = NULL THEN m1
       ELSE IF is_last THEN m1
       ELSE IF next = head1 THEN m1
       ELSE IF next = NULL THEN [m1 EXCEPT !.ub = TRUE]
       ELSE remove_expired_loop(m1, next, head1, now_ms)

remove_expired(m, now_ms) ==
    IF HeadOf(m.list) = NULL THEN m
    ELSE remove_expired_loop(m, HeadOf(m.list), HeadOf(m.list), now_ms)

----------------------------------------------------------------------------
(* The built-in policies *)

\* mutant: a hit leaves the node where it is
lru_touch_Still(m, k) == m

lru_touch(m, k) == bcache_move_back(m, k)

\* mutant: the victim is the node after the head, when there is one
lru_pop_Second(m) ==
    IF Len(m.list) >= 2 THEN m.list[2].key ELSE HeadOf(m.list)

\* mutant: the victim is the tail of the list
lru_pop_Tail(m) == IF m.list = <<>> THEN NULL ELSE m.list[Len(m.list)].key

lru_pop(m) == HeadOf(m.list)

\* mutant: a hit moves the node to the tail
fifo_touch_Moves(m, k) == bcache_move_back(m, k)

fifo_touch(m, k) == m

\* mutant: the victim is the tail of the list
fifo_pop_Tail(m) == IF m.list = <<>> THEN NULL ELSE m.list[Len(m.list)].key

fifo_pop(m) == HeadOf(m.list)

random_touch(m, k) == m

\* the walk of random_pop: idx steps along next, stopping at a null pointer
RECURSIVE random_walk(_, _, _)
random_walk(l, n, idx) ==
    IF idx > 0 /\ n # NULL
    THEN random_walk(l, NextOf(l, n, host.circular), idx - 1)
    ELSE n

\* mutant: the walk takes r steps, not r modulo item_count
random_pop_NoMod(m, r) ==
    IF m.item_count = 0 THEN NULL
    ELSE random_walk(m.list, HeadOf(m.list), r)

\* r is what the injected rng returns
random_pop(m, r) ==
    IF m.item_count = 0 THEN NULL
    ELSE random_walk(m.list, HeadOf(m.list), r % m.item_count)

\* fc->touch_fn(&fc->base, n, fc->policy_ctx)
touch(m, k) ==
    LET m1 == Ev(m, <<"touch", k>>)
    IN CASE touch_fn = "lru" -> lru_touch(m1, k)
         [] touch_fn = "fifo" -> fifo_touch(m1, k)
         [] touch_fn = "random" -> random_touch(m1, k)

\* the victims fc->pop_fn may return (one per value of the rng)
pop(m) ==
    CASE pop_fn = "lru" -> {lru_pop(m)}
      [] pop_fn = "fifo" -> {fifo_pop(m)}
      [] pop_fn = "random" -> {random_pop(m, r) : r \in 0..MaxRng}

\* mutant: at most one victim is evicted
enforce_limits_Once(m) ==
    LET over_items == cfg.item_max # 0 /\ m.item_count > cfg.item_max
        over_bytes == cfg.byte_max # 0 /\ m.total_bytes > cfg.byte_max
    IN IF ~over_items /\ ~over_bytes THEN {m}
       ELSE IF pop_fn = "null" THEN {m}
       ELSE { IF victim = NULL THEN Ev(m, <<"pop", NULL>>)
              ELSE delete_node(Ev(m, <<"pop", victim>>), victim)
              : victim \in pop(m) }

\* mutant: enforcing the limits removes the expired entries
enforce_limits_Sweeps(m) == {remove_expired(m, now)}

\* mutant: a limit of 0 is enforced as a limit
enforce_limits_ZeroIsLimit(m) ==
    LET over_items == m.item_count > cfg.item_max
        over_bytes == m.total_bytes > cfg.byte_max
    IN IF ~over_items /\ ~over_bytes THEN {m}
       ELSE IF pop_fn = "null" THEN {m}
       ELSE { IF victim = NULL THEN Ev(m, <<"pop", NULL>>)
              ELSE delete_node(Ev(m, <<"pop", victim>>), victim)
              : victim \in pop(m) }

\* mutant: with no pop hook installed the head of the list is evicted
enforce_limits_NoHookEvicts(m) ==
    LET over_items == cfg.item_max # 0 /\ m.item_count > cfg.item_max
        over_bytes == cfg.byte_max # 0 /\ m.total_bytes > cfg.byte_max
    IN IF ~over_items /\ ~over_bytes THEN {m}
       ELSE IF pop_fn = "null" THEN {delete_node(m, HeadOf(m.list))}
       ELSE { IF victim = NULL THEN Ev(m, <<"pop", NULL>>)
              ELSE delete_node(Ev(m, <<"pop", victim>>), victim)
              : victim \in pop(m) }

\* the set of states enforce_limits may end in
RECURSIVE enforce_limits(_)
enforce_limits(m) ==
    LET over_items == cfg.item_max # 0 /\ m.item_count > cfg.item_max
        over_bytes == cfg.byte_max # 0 /\ m.total_bytes > cfg.byte_max
    IN IF ~over_items /\ ~over_bytes THEN {m}
       ELSE IF pop_fn = "null" THEN {m}
       ELSE UNION { IF victim = NULL THEN {Ev(m, <<"pop", NULL>>)}
                    ELSE enforce_limits(delete_node(Ev(m, <<"pop", victim>>), victim))
                    : victim \in pop(m) }

\* the pop hook of policy p
PopOf(p, m) == IF p = "lru" THEN lru_pop(m) ELSE fifo_pop(m)

\* enforce_limits with the pop hook of policy p installed
RECURSIVE EnforceAs(_, _)
EnforceAs(p, m) ==
    LET over_items == cfg.item_max # 0 /\ m.item_count > cfg.item_max
        over_bytes == cfg.byte_max # 0 /\ m.total_bytes > cfg.byte_max
        victim == PopOf(p, m)
    IN IF ~over_items /\ ~over_bytes THEN {m}
       ELSE IF victim = NULL THEN {Ev(m, <<"pop", NULL>>)}
       ELSE EnforceAs(p, delete_node(Ev(m, <<"pop", victim>>), victim))

\* mutant: the ttl is stored as the expiry
safe_expiration_NoNow(now_ms, ttl_ms) == ttl_ms

\* mutant: the sum wraps around in the clock's width
safe_expiration_Wraps(now_ms, ttl_ms) ==
    IF ttl_ms = 0 THEN 0 ELSE (now_ms + ttl_ms) % (ClockMax + 1)

safe_expiration(now_ms, ttl_ms) ==
    IF ttl_ms = 0 THEN 0
    ELSE IF now_ms > ClockMax - ttl_ms THEN ClockMax
    ELSE now_ms + ttl_ms

\* the expiry an insert stores, for the insert of flexcache.h that takes both a
\* ttl and an absolute expiry: the ttl wins, else a nonzero absolute expiry is
\* kept as given, else 0.  With expires_at_ms = 0 this is
\* e->expires_at_ms = safe_expiration(now_ms, ttl_ms) of flexcache.c.
entry_expiry(now_ms, ttl_ms, expires_at_ms) ==
    IF ttl_ms > 0 THEN safe_expiration(now_ms, ttl_ms)
    ELSE IF expires_at_ms > 0 THEN expires_at_ms
    ELSE 0

----------------------------------------------------------------------------
(* flexcache.c: the public operations, as functions of the working state. *)
(* Each yields the set of outcomes [m, rc, path].                         *)

Out(m, rc, path) == [m |-> m, rc |-> rc, path |-> path]

\* mutant: a failed insert frees nothing
insert_release_Leaks(m, k, withValue) == m

\* the frees of a failed insert: key_free, then value_free when a value is held
insert_release(m, k, withValue) ==
    LET m1 == IF cfg.key_free THEN key_free(m, k) ELSE m
    IN IF withValue /\ cfg.value_free THEN value_free(m1, k) ELSE m1

\* mutant: the byte size is not validated
insert_invalid_NoSize(k, byte_size) == k = NULL

\* !key || key_len == 0 || byte_size < 0
insert_invalid(k, byte_size) == k = NULL \/ byte_size < 0

\* fail names the allocation that fails in this call: "none", "key" (key_copy),
\* "value" (value_copy), "entry" (malloc) or "node" (bcache_node_new)
flexcache_insert(m, k, v, byte_size, ttl_ms, expires_at_ms, fail) ==
    IF insert_invalid(k, byte_size) THEN {Out(m, -2, "invalid")}
    ELSE IF cfg.key_copy /\ fail = "key"
    THEN {Out(Ev(m, <<"key_copy", k, FALSE>>), -2, "nocopy")}
    ELSE
      LET m1 == IF cfg.key_copy
                THEN [Ev(m, <<"key_copy", k, TRUE>>) EXCEPT !.liveK = @ + 1]
                ELSE m
      IN IF cfg.value_copy /\ fail = "value"
         THEN {Out(insert_release(Ev(m1, <<"value_copy", k, FALSE>>), k, FALSE),
                   -2, "nocopy")}
         ELSE
           LET m2 == IF cfg.value_copy
                     THEN [Ev(m1, <<"value_copy", k, TRUE>>) EXCEPT !.liveV = @ + 1]
                     ELSE m1
               n == [key |-> k, val |-> v, size |-> byte_size,
                     exp |-> entry_expiry(now, ttl_ms, expires_at_ms)]
           IN IF fail \in {"entry", "node"}
              THEN {Out(insert_release(m2, k, TRUE), -2, "nomem")}
              ELSE IF bcache_get(m2, k) # NULL
              THEN {Out(insert_release(m2, k, TRUE), -1, "duplicate")}
              ELSE LET m3 == [Remember(bcache_insert(m2, n), k)
                                   EXCEPT !.owed[k] = IF cfg.ondelete THEN @ + 1 ELSE @]
                   IN {Out(x, 0, "ok") : x \in enforce_limits(m3)}

\* mutant: the node is touched before its expiry is tested
flexcache_get_TouchesExpired(m, k) ==
    IF k = NULL THEN Out(m, NULL, "invalid")
    ELSE IF bcache_get(m, k) = NULL THEN Out(m, NULL, "miss")
    ELSE LET m1 == IF touch_fn # "null" THEN touch(m, k) ELSE m
         IN IF IsExpired(NodeOf(m.list, k), now)
            THEN Out(delete_node(m1, k), NULL, "expired")
            ELSE Out(Used(m1, k), NodeOf(m.list, k).val, "hit")

flexcache_get(m, k) ==
    IF k = NULL THEN Out(m, NULL, "invalid")
    ELSE IF bcache_get(m, k) = NULL THEN Out(m, NULL, "miss")
    ELSE IF IsExpired(NodeOf(m.list, k), now) THEN Out(delete_node(m, k), NULL, "expired")
    ELSE Out(Used(IF touch_fn # "null" THEN touch(m, k) ELSE m, k),
             NodeOf(m.list, k).val, "hit")

\* mutant: a present key is reported deleted and left in place
flexcache_delete_Keeps(m, k) ==
    IF k = NULL THEN Out(m, -1, "invalid")
    ELSE IF bcache_get(m, k) = NULL THEN Out(m, -1, "miss")
    ELSE Out(m, 0, "ok")

\* mutant: the delete of an absent key reports success
flexcache_delete_AbsentOk(m, k) ==
    IF k = NULL THEN Out(m, -1, "invalid")
    ELSE IF bcache_get(m, k) = NULL THEN Out(m, 0, "miss")
    ELSE Out(delete_node(m, k), 0, "ok")

flexcache_delete(m, k) ==
    IF k = NULL THEN Out(m, -1, "invalid")
    ELSE IF bcache_get(m, k) = NULL THEN Out(m, -1, "miss")
    ELSE Out(delete_node(m, k), 0, "ok")

\* the do-while of flexcache_destroy
RECURSIVE destroy_loop(_, _, _)
destroy_loop(m, n, head) ==
    LET is_last == (NextOf(m.list, n, host.circular) = head) \/ (m.item_count = 1)
        next == NextOf(m.list, n, host.circular)
        m1 == delete_node(m, n)
        head1 == HeadOf(m1.list)
    IN IF head1 = NULL THEN m1
       ELSE IF is_last THEN m1
       ELSE IF next = head1 THEN m1
       ELSE IF next = NULL THEN [m1 EXCEPT !.ub = TRUE]
       ELSE destroy_loop(m1, next, head1)

flexcache_destroy(m) ==
    IF HeadOf(m.list) = NULL THEN m
    ELSE destroy_loop(m, HeadOf(m.list), HeadOf(m.list))

----------------------------------------------------------------------------
(* Actions *)

Commit(m, ph, op, k, rc, path) ==
    /\ list' = m.list
    /\ hashmap' = m.hashmap
    /\ item_count' = m.item_count
    /\ total_bytes' = m.total_bytes
    /\ owed' = m.owed
    /\ liveK' = m.liveK
    /\ liveV' = m.liveV
    /\ byUse' = m.byUse
    /\ byInsert' = m.byInsert
    /\ sweptAt' = IF "sweep" \in host.observe /\ op = "maybe_scan" /\ path # "skipped"
                  THEN now ELSE sweptAt
    /\ op # "insert" => lastArgs' = <<>>
    /\ lastTrace' = IF "trace" \in host.observe THEN m.trace ELSE <<>>
    /\ phase' = ph
    /\ last' = [op |-> op, key |-> k, rc |-> rc, path |-> path, gone |-> m.gone]

\* reading n->next through a null pointer is undefined: the build traps, or the
\* read yields a value and the run leaves the loop
AfterUB(m) == IF m.ub THEN {"trap", "stop"} ELSE {"ok"}

Insert(k, v, byte_size, ttl_ms, expires_at_ms, fail) ==
    /\ phase = "live"
    /\ fail = "key" => cfg.key_copy
    /\ fail = "value" => cfg.value_copy
    /\ \E o \in flexcache_insert(Cur, k, v, byte_size, ttl_ms, expires_at_ms, fail) :
          Commit(o.m, "live", "insert", k, o.rc, o.path)
    /\ lastArgs' = IF "args" \in host.observe THEN <<ttl_ms, expires_at_ms>> ELSE <<>>
    /\ UNCHANGED <<host, cfg, touch_fn, pop_fn, last_scan_ms, now>>

Get(k) ==
    /\ phase = "live"
    /\ LET o == flexcache_get(Cur, k)
       IN Commit(o.m, "live", "get", k, o.rc, o.path)
    /\ UNCHANGED <<host, cfg, touch_fn, pop_fn, last_scan_ms, now>>

Delete(k) ==
    /\ phase = "live"
    /\ LET o == flexcache_delete(Cur, k)
       IN Commit(o.m, "live", "delete", k, o.rc, o.path)
    /\ UNCHANGED <<host, cfg, touch_fn, pop_fn, last_scan_ms, now>>

\* remove_expired(fc, now_ms); enforce_limits(fc)
Sweep(op) ==
    LET m1 == remove_expired(Cur, now)
    IN \E out \in AfterUB(m1) :
         IF out = "trap"
         THEN Commit(m1, "crashed", op, NULL, 0, "trap")
         ELSE \E m2 \in enforce_limits([m1 EXCEPT !.ub = FALSE]) :
                Commit(m2, "live", op, NULL, 0, IF out = "ok" THEN "ran" ELSE "stop")

\* mutant: the unconditional sweep stamps last_scan_ms
ScanAndClean_Stamps ==
    /\ phase = "live"
    /\ Sweep("scan")
    /\ last_scan_ms' = now
    /\ UNCHANGED <<host, cfg, touch_fn, pop_fn, now>>

ScanAndClean ==
    /\ phase = "live"
    /\ Sweep("scan")
    /\ UNCHANGED <<host, cfg, touch_fn, pop_fn, last_scan_ms, now>>

\* mutant: the operands are swapped
ClockSub_Swapped(a, b) == (b - a) % (ClockMax + 1)

\* now_ms - fc->last_scan_ms in the clock's unsigned type
ClockSub(a, b) == (a - b) % (ClockMax + 1)

MaybeScanAndClean ==
    /\ phase = "live"
    /\ IF \/ cfg.scan_interval_ms = 0
          \/ last_scan_ms = 0
          \/ ClockSub(now, last_scan_ms) >= cfg.scan_interval_ms
       THEN /\ last_scan_ms' = now
            /\ Sweep("maybe_scan")
       ELSE /\ last_scan_ms' = last_scan_ms
            /\ Commit(Cur, "live", "maybe_scan", NULL, 0, "skipped")
    /\ UNCHANGED <<host, cfg, touch_fn, pop_fn, now>>

\* mutant: installing a policy forgets the time of the last sweep
SetPolicyHooks_ResetsScan(p) ==
    /\ phase = "live"
    /\ touch_fn' = p
    /\ pop_fn' = p
    /\ last_scan_ms' = 0
    /\ Commit(Cur, "live", "set_policy", NULL, 0, p)
    /\ UNCHANGED <<host, cfg, now>>

\* flexcache_policy_lru_init, _fifo_init, _random_init, or
\* flexcache_set_policy_hooks(fc, NULL, NULL, NULL) for p = "null"
SetPolicyHooks(p) ==
    /\ phase = "live"
    /\ touch_fn' = p
    /\ pop_fn' = p
    /\ Commit(Cur, "live", "set_policy", NULL, 0, p)
    /\ UNCHANGED <<host, cfg, last_scan_ms, now>>

Destroy ==
    /\ phase = "live"
    /\ LET m1 == flexcache_destroy(Cur)
       IN \E out \in AfterUB(m1) :
            Commit(m1, IF out = "trap" THEN "crashed" ELSE "destroyed",
                   "destroy", NULL, 0, out)
    /\ UNCHANGED <<host, cfg, touch_fn, pop_fn, last_scan_ms, now>>

\* the host's clock moves forward
Tick(t) ==
    /\ phase = "live"
    /\ t > now
    /\ now' = t
    /\ Commit(Cur, "live", "tick", NULL, 0, "ok")
    /\ UNCHANGED <<host, cfg, touch_fn, pop_fn, last_scan_ms>>

Next ==
    \/ \E k \in 0..host.nkeys, v \in 1..host.nvals, b \in host.sizes,
          t \in 0..host.maxttl, x \in 0..host.maxabs, f \in host.fails :
             Insert(k, v, b, t, x, f)
    \/ \E k \in 0..host.nkeys : Get(k)
    \/ \E k \in 0..host.nkeys : Delete(k)
    \/ ScanAndClean
    \/ MaybeScanAndClean
    \/ \E p \in host.policies : SetPolicyHooks(p)
    \/ Destroy
    \/ \E t \in 0..host.tmax : Tick(t)

----------------------------------------------------------------------------
(* Initial states: flexcache_init, and the policy installed at construction, *)
(* under each of the profiles P (a host and its configuration)                *)

Config(im, bm, si, kc, kf, vc, vf, od) ==
    [item_max |-> im, byte_max |-> bm, scan_interval_ms |-> si,
     key_copy |-> kc, key_free |-> kf, value_copy |-> vc, value_free |-> vf,
     ondelete |-> od]

InitWith(P) ==
    /\ \E p \in P : host = p.host /\ cfg = p.cfg
    /\ touch_fn = host.policy0
    /\ pop_fn = host.policy0
    /\ list = <<>>
    /\ hashmap = {}
    /\ item_count = 0
    /\ total_bytes = 0
    /\ last_scan_ms = 0
    /\ now = host.t0
    /\ phase = "live"
    /\ owed = [k \in 1..host.nkeys |-> 0]
    /\ liveK = 0
    /\ liveV = 0
    /\ byUse = <<>>
    /\ byInsert = <<>>
    /\ sweptAt = -1
    /\ lastArgs = <<>>
    /\ lastTrace = <<>>
    /\ last = [op |-> "init", key |-> NULL, rc |-> 0, path |-> "ok", gone |-> 0]

\* a host: the keys 1..nkeys and values 1..nvals it uses, the byte sizes, ttls
\* 0..maxttl and absolute expiries 0..maxabs it passes, its clock t0..tmax, the allocation failures it meets, the
\* policy it installs at construction and those it may switch to, whether its
\* list build is circular, and the observers it keeps (recency under LRU
\* throughout, insertion order under FIFO throughout; "sweep" for the clock of
\* the throttled sweeps, "args" for the expiry arguments of inserts, "trace"
\* for the hook calls of each operation)
Host(nk, nv, sz, mt, tm, fl, p0, ps, ci) ==
    [nkeys |-> nk, nvals |-> nv, sizes |-> sz, maxttl |-> mt, maxabs |-> 0, t0 |-> 0,
     tmax |-> tm, fails |-> fl, policy0 |-> p0, policies |-> ps, circular |-> ci,
     observe |-> IF ps = {"lru"} THEN {"use"}
                 ELSE IF ps = {"fifo"} THEN {"insert"} ELSE {}]

AllHooks(im, bm, si) == Config(im, bm, si, TRUE, TRUE, TRUE, TRUE, TRUE)

Sizes == {-1} \cup (0..MaxSize)

Profiles ==
    {[host |-> Host(MaxKeys, 1, Sizes, MaxTtl, MaxTime, {"none"}, "lru", {"lru"}, FALSE),
      cfg |-> AllHooks(LimItems, 0, 0)],
     [host |-> Host(MaxKeys, 1, Sizes, MaxTtl, MaxTime, {"none"}, "fifo", {"fifo"}, FALSE),
      cfg |-> AllHooks(LimItems, LimBytes, 0)],
     [host |-> Host(MaxKeys, 1, Sizes, MaxTtl, MaxTime, {"none"}, "random", {"random"}, FALSE),
      cfg |-> AllHooks(0, LimBytes, 0)],
     [host |-> Host(MaxKeys, 1, {-1, 1}, MaxTtl, MaxTime, {"none"}, "null", {"null", "lru"}, FALSE),
      cfg |-> AllHooks(0, 0, Interval)],
     [host |-> Host(MaxKeys, 1, {-1, 1}, MaxTtl, MaxTime, {"none"}, "fifo", {"fifo"}, TRUE),
      cfg |-> AllHooks(0, 0, 0)],
     [host |-> Host(2, MaxVal, {-1, 1}, MaxTtl, MaxTime, {"none", "key", "value", "entry"},
                    "lru", {"lru"}, FALSE),
      cfg |-> AllHooks(1, 0, 0)],
     [host |-> Host(2, 1, Sizes, MaxTtl, MaxTime, {"none"},
                    "null", {"lru", "fifo", "random", "null"}, FALSE),
      cfg |-> AllHooks(1, 0, 0)],
     [host |-> Host(2, 1, {0, 1}, 0, 0, {"none"}, "lru", {"lru"}, FALSE),
      cfg |-> AllHooks(0, -1, 0)]}

Init == InitWith(Profiles)

Spec == Init /\ [][Next]_vars

\* hosts that exercise the clock: absolute expiries up to MaxAbs on a clock
\* 0..MaxAbs; a clock that starts one instant before ClockMax, with ttls that
\* overflow it; throttled sweeps every Interval + 1 on a clock 0..Horizon
ProfilesClock ==
    {[host |-> [Host(2, 1, {1}, MaxTtl, MaxAbs, {"none"}, "lru", {"lru"}, FALSE)
                  EXCEPT !.maxabs = MaxAbs, !.observe = {"args"}],
      cfg |-> AllHooks(0, 0, 0)],
     [host |-> [Host(2, 1, {1}, MaxTtl + 1, ClockMax, {"none"}, "fifo", {"fifo"}, FALSE)
                  EXCEPT !.t0 = ClockMax - 1, !.observe = {"args"}],
      cfg |-> AllHooks(0, 0, 0)],
     [host |-> [Host(2, 1, {1}, MaxTtl, Horizon, {"none"}, "lru", {"lru"}, FALSE)
                  EXCEPT !.observe = {"sweep"}],
      cfg |-> AllHooks(0, 0, Interval + 1)]}

InitClock == InitWith(ProfilesClock)

SpecClock == InitClock /\ [][Next]_vars

\* hosts that record the hook calls of every operation: evictions under
\* item_max with a policy switch; borrowed keys and values with free hooks on a
\* circular list; no policy installed under item_max 1; a byte_max below zero;
\* an unlimited cache without on_delete; a byte_max that one entry can exceed;
\* FIFO installed after the cache has grown past item_max 1 with no policy
ProfilesHooks ==
    {[host |-> [Host(MaxKeys, 1, {1}, MaxTtl, MaxTime, {"none"},
                     "lru", {"lru", "fifo"}, FALSE) EXCEPT !.observe = {"trace"}],
      cfg |-> AllHooks(LimItems, 0, 0)],
     [host |-> [Host(MaxKeys, 1, {1}, MaxTtl, MaxTime, {"none"},
                     "fifo", {"fifo"}, TRUE) EXCEPT !.observe = {"trace", "insert"}],
      cfg |-> Config(0, 0, 0, FALSE, TRUE, FALSE, TRUE, TRUE)],
     [host |-> [Host(2, MaxVal, {1}, MaxTtl, MaxTime, {"none"},
                     "null", {"null", "random"}, FALSE) EXCEPT !.observe = {"trace"}],
      cfg |-> AllHooks(1, 0, 0)],
     [host |-> [Host(2, MaxVal, {0, 1}, 0, 0, {"none"},
                     "lru", {"lru"}, FALSE) EXCEPT !.observe = {"trace"}],
      cfg |-> AllHooks(0, -1, 0)],
     [host |-> [Host(2, 1, {1, MaxSize}, MaxTtl, MaxTime, {"none"},
                     "lru", {"lru"}, FALSE) EXCEPT !.observe = {"trace"}],
      cfg |-> Config(0, 0, 0, TRUE, TRUE, TRUE, TRUE, FALSE)],
     [host |-> [Host(MaxKeys, 1, {1, LimBytes}, 0, 0, {"none"},
                     "lru", {"lru", "fifo"}, FALSE) EXCEPT !.observe = {"trace"}],
      cfg |-> AllHooks(0, LimBytes - 1, 0)],
     [host |-> [Host(MaxKeys, 1, {1}, 0, 0, {"none"},
                     "null", {"null", "fifo"}, FALSE) EXCEPT !.observe = {"trace"}],
      cfg |-> AllHooks(1, 0, 0)]}

InitHooks == InitWith(ProfilesHooks)

SpecHooks == InitHooks /\ [][Next]_vars

----------------------------------------------------------------------------
(* C1: in every reachable state item_count is the number of distinct keys *)
(* present, the hash index and the list hold the same keys, and no key is *)
(* linked twice.                                                          *)
C1_ContainerInvariant ==
    /\ item_count = Cardinality(KeysOf(list))
    /\ hashmap = KeysOf(list)
    /\ Len(list) = Cardinality(KeysOf(list))

C1_Witness == last.op = "delete" /\ last.path = "ok" /\ item_count = 2

(* C2: in every reachable state total_bytes is the sum of the byte sizes *)
(* of the entries present.                                               *)
C2_TotalBytes == total_bytes = SumSizes(list)

C2_Witness ==
    /\ last.op = "insert" /\ last.rc = 0
    /\ item_count = 2 /\ total_bytes = 3

(* C3: with on_delete configured, once destroy has returned every        *)
(* successful insert has had its on_delete: none is owed.                *)
C3_OnDeleteByDestroy ==
    (cfg.ondelete /\ phase = "destroyed") => \A k \in DOMAIN owed : owed[k] = 0

(* C4: with the copy and free hooks configured, once destroy has returned *)
(* no copied buffer is left unfreed, and after a duplicate insert the     *)
(* live copies are those of the entries present.                          *)
C4_CopiesFreedOnce ==
    (cfg.key_copy /\ cfg.key_free /\ cfg.value_copy /\ cfg.value_free) =>
        /\ phase = "destroyed" => (liveK = 0 /\ liveV = 0)
        /\ (last.op = "insert" /\ last.rc = -1) =>
               (liveK = item_count /\ liveV = item_count)

(* C5: right after scan_and_clean returns at clock now, no entry with a *)
(* nonzero expiry <= now is present.                                    *)
C5_NoExpiredAfterScan ==
    (last.op = "scan" /\ last.path = "ran") =>
        \A i \in 1..Len(list) : ~(list[i].exp # 0 /\ list[i].exp <= now)

(* C6: after destroy returns the cache is empty. *)
C6_EmptyAfterDestroy ==
    phase = "destroyed" =>
        (item_count = 0 /\ total_bytes = 0 /\ hashmap = {} /\ list = <<>>)

\* the state follows an insert that returned ok or a scan_and_clean that
\* returned, with a built-in policy installed
AfterEnforcement ==
    /\ pop_fn \in {"lru", "fifo", "random"}
    /\ phase = "live"
    /\ (last.op = "insert" /\ last.rc = 0) \/ last.op = "scan"

\* the claim as stated, for every byte_max the configuration accepts
C7_LimitsHoldAnyMax ==
    AfterEnforcement =>
       /\ cfg.item_max = 0 \/ item_count <= cfg.item_max
       /\ cfg.byte_max = 0 \/ total_bytes <= cfg.byte_max

(* C7: with a built-in policy installed and byte_max >= 0, after an insert *)
(* that returned ok and after a scan_and_clean that returned, item_count   *)
(* is within item_max and total_bytes within byte_max (a limit of 0 is     *)
(* disabled).                                                              *)
C7_LimitsHold ==
    (AfterEnforcement /\ cfg.byte_max >= 0)
    => /\ cfg.item_max = 0 \/ item_count <= cfg.item_max
       /\ cfg.byte_max = 0 \/ total_bytes <= cfg.byte_max

C7_Witness ==
    /\ last.op = "insert" /\ last.rc = 0 /\ last.gone = 2
    /\ pop_fn = "fifo"
    /\ cfg.byte_max # 0 /\ cfg.item_max # 0

\* the victims the policy handed to an operation, in order
Victims(trace) ==
    LET pops == SelectSeq(trace, LAMBDA e : e[1] = "pop" /\ e[2] # NULL)
    IN [i \in 1..Len(pops) |-> pops[i][2]]

\* the victims of every insert of key k that returns ok from the current state
\* are the first keys of order followed by k
EvictsInOrder(order) ==
    \A k \in 1..host.nkeys, v \in 1..host.nvals, b \in host.sizes, t \in 0..host.maxttl :
       \A o \in flexcache_insert(Cur, k, v, b, t, 0, "none") :
          o.rc = 0 =>
             LET vs == Victims(o.m.trace)
                 q == Append(order, k)
             IN Len(vs) <= Len(q) /\ vs = SubSeq(q, 1, Len(vs))

(* C8: under LRU throughout, the entries a capacity eviction removes are *)
(* the present keys in the order of their most recent successful get or  *)
(* insert, oldest first.                                                 *)
C8_LruEvictsLeastRecent ==
    (host.policies = {"lru"} /\ phase = "live") => EvictsInOrder(byUse)

\* insert a, insert b, get a, insert c under item_max = 2 has left exactly {a, c}
C8_Witness ==
    /\ host.policies = {"lru"} /\ cfg.item_max = 2
    /\ last.op = "insert" /\ last.key = 3 /\ last.rc = 0 /\ last.gone = 1
    /\ Len(list) = 2 /\ list[1].key = 1 /\ list[2].key = 3

(* C9: under FIFO throughout, the entries a capacity eviction removes    *)
(* are the present keys in the order of their inserts, oldest first,     *)
(* whatever gets were made.                                              *)
C9_FifoEvictsOldestInsert ==
    (host.policies = {"fifo"} /\ phase = "live") => EvictsInOrder(byInsert)

\* a get of the older entry, then an insert that evicts it
C9_Witness ==
    /\ host.policies = {"fifo"} /\ cfg.item_max = 2
    /\ last.op = "insert" /\ last.key = 3 /\ last.rc = 0 /\ last.gone = 1
    /\ Len(list) = 2 /\ list[1].key = 2 /\ list[2].key = 3

(* C10: a get of a present key whose expiry e is nonzero and e <= now    *)
(* returns absent, removes that entry alone (item_count by 1, total_bytes *)
(* by its byte size) and fires on_delete once, for it.                    *)
C10_GetExpiredRemoves ==
    [][ (/\ last'.op = "get"
         /\ last'.key \in KeysOf(list)
         /\ NodeOf(list, last'.key).exp # 0
         /\ NodeOf(list, last'.key).exp <= now)
        => LET k == last'.key
           IN /\ last'.rc = NULL
              /\ item_count' = item_count - 1
              /\ total_bytes' = total_bytes - NodeOf(list, k).size
              /\ list' = SelectSeq(list, LAMBDA n : n.key # k)
              /\ hashmap' = hashmap \ {k}
              /\ cfg.ondelete => owed' = [owed EXCEPT ![k] = @ - 1]
              /\ last'.gone = 1 ]_vars

C10_Witness ==
    /\ last.op = "get" /\ last.path = "expired" /\ last.rc = NULL
    /\ item_count >= 1
    /\ \E i \in 1..Len(list) : list[i].exp # 0 /\ list[i].exp <= now

\* every call insert(k, v, b, t, x) the host can make, with the allocation f
\* failing in it, ends as P(k, v, b, t, x, f, outcome) says
EveryInsert(P(_, _, _, _, _, _, _)) ==
    \A k \in 0..host.nkeys, v \in 1..host.nvals, b \in host.sizes,
       t \in 0..host.maxttl, x \in 0..host.maxabs, f \in host.fails :
       \A o \in flexcache_insert(Cur, k, v, b, t, x, f) : P(k, v, b, t, x, f, o)

\* the container of outcome o is the current one: same nodes in the same order
\* with their values and expiries, same index and counters
SameContainer(o) ==
    /\ o.m.list = list
    /\ o.m.hashmap = hashmap
    /\ o.m.item_count = item_count
    /\ o.m.total_bytes = total_bytes

\* the events tagged tag among the hook calls of a trace
Calls(trace, tag) == SelectSeq(trace, LAMBDA e : e[1] = tag)

(* C11: a get of a present key that is not expired at the current clock   *)
(* returns the value handle the creating insert stored, and leaves        *)
(* item_count, total_bytes and the key set unchanged; a successful insert *)
(* stores the handle it was given and no step replaces the value of a key *)
(* that stays present.                                                    *)
C11_GetReturnsStored ==
    /\ [](phase = "live" =>
            EveryInsert(LAMBDA k, v, b, t, x, f, o :
               (o.rc = 0 /\ k \in o.m.hashmap) => NodeOf(o.m.list, k).val = v))
    /\ [][ /\ (/\ last'.op = "get"
                /\ last'.key \in KeysOf(list)
                /\ ~(/\ NodeOf(list, last'.key).exp # 0
                     /\ NodeOf(list, last'.key).exp <= now))
               => /\ last'.rc = NodeOf(list, last'.key).val
                  /\ item_count' = item_count
                  /\ total_bytes' = total_bytes
                  /\ hashmap' = hashmap
                  /\ KeysOf(list') = KeysOf(list)
           /\ \A k \in KeysOf(list) \cap KeysOf(list') :
                 NodeOf(list', k).val = NodeOf(list, k).val ]_vars

C11_Witness ==
    /\ last.op = "get" /\ last.path = "hit" /\ last.rc = 2
    /\ item_count = 1

(* C12: an insert of a key that is already present returns -1 (its other  *)
(* arguments valid and no allocation failing) and leaves the key set,     *)
(* item_count, total_bytes, the list order and the existing entry's value *)
(* and expiry as they were; on_delete is not fired and nothing is         *)
(* evicted.                                                               *)
C12_DuplicateInsertNoChange ==
    phase = "live" =>
       EveryInsert(LAMBDA k, v, b, t, x, f, o :
          k \in KeysOf(list) =>
             /\ (b >= 0 /\ f = "none") => o.rc = -1
             /\ SameContainer(o)
             /\ o.m.owed = owed
             /\ o.m.gone = 0
             /\ Calls(o.m.trace, "ondelete") = <<>>
             /\ Calls(o.m.trace, "pop") = <<>>)

C12_Witness ==
    /\ last.op = "insert" /\ last.path = "duplicate" /\ last.rc = -1
    /\ item_count = 2

(* C13: an insert with a zero-length key or a negative byte_size returns  *)
(* -2, calls no hook and changes nothing; a get and a delete with a       *)
(* zero-length key return absent (NULL, -1) and change nothing.           *)
C13_InvalidArgsNoChange ==
    phase = "live" =>
       /\ EveryInsert(LAMBDA k, v, b, t, x, f, o :
             (k = 0 \/ b < 0) => (o.rc = -2 /\ o.m = Cur))
       /\ flexcache_get(Cur, 0).rc = NULL /\ flexcache_get(Cur, 0).m = Cur
       /\ flexcache_delete(Cur, 0).rc = -1 /\ flexcache_delete(Cur, 0).m = Cur

C13_Witness ==
    /\ last.op = "insert" /\ last.path = "invalid" /\ last.rc = -2
    /\ last.key # 0
    /\ item_count = 2

(* C14: when key_copy or value_copy fails in an insert (copy and free     *)
(* hooks configured), the insert returns -2, every buffer a copy hook     *)
(* gave in that call went to its free hook exactly once, and the key set, *)
(* list order, item_count and total_bytes are as before the call.         *)
C14_CopyFailureRollsBack ==
    (/\ phase = "live"
     /\ cfg.key_copy /\ cfg.key_free /\ cfg.value_copy /\ cfg.value_free)
    => EveryInsert(LAMBDA k, v, b, t, x, f, o :
          (k # 0 /\ b >= 0 /\ f \in {"key", "value"}) =>
             /\ o.rc = -2
             /\ SameContainer(o)
             /\ o.m.liveK = liveK /\ o.m.liveV = liveV
             /\ Len(Calls(o.m.trace, "key_free")) =
                   Len(SelectSeq(o.m.trace, LAMBDA e : e[1] = "key_copy" /\ e[3]))
             /\ Len(Calls(o.m.trace, "value_free")) =
                   Len(SelectSeq(o.m.trace, LAMBDA e : e[1] = "value_copy" /\ e[3]))
             /\ f = "value" => Len(Calls(o.m.trace, "key_free")) = 1)

C14_Witness ==
    /\ last.op = "insert" /\ last.path = "nocopy" /\ last.rc = -2
    /\ item_count = 1

\* an insert that returned ok with its entry linked
Stored(k, o) == o.rc = 0 /\ k \in o.m.hashmap

\* a get step on a present entry with nonzero expiry returns its value and
\* keeps it while now is before the expiry, and returns absent and removes it
\* from the expiry instant on
GetFollowsExpiry ==
    (/\ last'.op = "get"
     /\ last'.key \in KeysOf(list)
     /\ NodeOf(list, last'.key).exp # 0)
    => LET n == NodeOf(list, last'.key)
       IN IF now < n.exp
          THEN last'.rc = n.val /\ n.key \in KeysOf(list')
          ELSE last'.rc = NULL /\ n.key \notin KeysOf(list')

\* no entry with a nonzero expiry <= now is linked
NoneExpired == \A i \in 1..Len(list) : ~(list[i].exp # 0 /\ list[i].exp <= now)

(* C15: an insert with ttl = 0 and an absolute expiry x > 0 stores x as   *)
(* given, also when x is already past; a get returns the entry while      *)
(* now < x and returns absent and removes it once now >= x; a             *)
(* scan_and_clean that returns at now >= x leaves no such entry behind.   *)
C15_AbsoluteExpiryVerbatim ==
    /\ [](phase = "live" =>
            EveryInsert(LAMBDA k, v, b, t, x, f, o :
               (t = 0 /\ x > 0 /\ Stored(k, o)) => NodeOf(o.m.list, k).exp = x))
    /\ [][host.maxabs > 0 => GetFollowsExpiry]_vars
    /\ []((host.maxabs > 0 /\ last.op = "scan" /\ last.path = "ran") => NoneExpired)

(* C16: an insert with ttl > 0 and an absolute expiry x > 0 stores        *)
(* min(now + ttl, ClockMax), whatever x is; a get returns the entry while *)
(* the clock is before the stored expiry and absent from then on.         *)
C16_TtlWinsOverAbsolute ==
    /\ [](phase = "live" =>
            EveryInsert(LAMBDA k, v, b, t, x, f, o :
               (t > 0 /\ x > 0 /\ Stored(k, o)) =>
                  NodeOf(o.m.list, k).exp =
                     IF now + t > ClockMax THEN ClockMax ELSE now + t))
    /\ [][GetFollowsExpiry]_vars

\* ttl 1 and absolute expiry 2 at clock 1: the entry expires at 2, as either says;
\* ttl 1 and absolute expiry 1 at clock 1: the entry expires at 2, not at 1
C16_Witness ==
    /\ last.op = "insert" /\ last.rc = 0
    /\ lastArgs = <<1, 1>>
    /\ now = 1
    /\ NodeOf(list, last.key).exp = 2

(* C17: an insert with ttl = 0 and absolute expiry 0 stores expiry 0; an  *)
(* entry with expiry 0 survives the sweep at every clock value and every  *)
(* get, and leaves only by delete, destroy or capacity eviction.          *)
C17_ZeroNeverExpires ==
    /\ [](phase = "live" =>
            /\ EveryInsert(LAMBDA k, v, b, t, x, f, o :
                  (t = 0 /\ x = 0 /\ Stored(k, o)) => NodeOf(o.m.list, k).exp = 0)
            /\ \A clock \in 0..ClockMax : \A i \in 1..Len(list) :
                  list[i].exp = 0 => list[i].key \in remove_expired(Cur, clock).hashmap)
    /\ [][ \A i \in 1..Len(list) :
             (list[i].exp = 0 /\ list[i].key \notin KeysOf(list')) =>
                \/ last'.op \in {"delete", "destroy"}
                \/ /\ last'.op \in {"insert", "scan", "maybe_scan"}
                   /\ cfg.item_max # 0 \/ cfg.byte_max # 0
                   /\ pop_fn # "null" ]_vars

\* a sweep removed an expired entry and left one that never expires
C17_Witness ==
    /\ last.op = "scan" /\ last.path = "ran" /\ last.gone = 1
    /\ now > 0
    /\ \E i \in 1..Len(list) : list[i].exp = 0

\* the claim as stated: not expired at the insert instant, at every clock value
C18_SaturatingExpiryAnyNow ==
    phase = "live" =>
       EveryInsert(LAMBDA k, v, b, t, x, f, o :
          (t > 0 /\ Stored(k, o)) =>
             LET e == NodeOf(o.m.list, k).exp
             IN /\ e = IF now + t > ClockMax THEN ClockMax ELSE now + t
                /\ e # 0 /\ e >= now
                /\ flexcache_get(o.m, k).rc = v)

(* C18: for ttl > 0 the stored expiry is min(now + ttl, ClockMax), never  *)
(* 0 and never before now; a get at the insert instant returns the entry  *)
(* unless now is ClockMax itself.                                         *)
C18_SaturatingExpiry ==
    phase = "live" =>
       EveryInsert(LAMBDA k, v, b, t, x, f, o :
          (t > 0 /\ Stored(k, o)) =>
             LET e == NodeOf(o.m.list, k).exp
             IN /\ e = IF now + t > ClockMax THEN ClockMax ELSE now + t
                /\ e # 0 /\ e >= now
                /\ now < ClockMax => flexcache_get(o.m, k).rc = v)

\* one instant before ClockMax an insert with a ttl that overflows the clock
C18_Witness ==
    /\ last.op = "insert" /\ last.rc = 0
    /\ lastArgs = <<MaxTtl + 1, 0>>
    /\ now = ClockMax - 1
    /\ NodeOf(list, last.key).exp = ClockMax

(* C19: maybe_scan_and_clean sweeps exactly when scan_interval = 0, or    *)
(* last_scan = 0, or now - last_scan >= scan_interval; when it sweeps,    *)
(* last_scan becomes now (and an expired head entry is gone); when it     *)
(* does not, last_scan and the cache contents are unchanged.              *)
C19_MaybeScanThrottle ==
    [][ last'.op = "maybe_scan" =>
          IF \/ cfg.scan_interval_ms = 0
             \/ last_scan_ms = 0
             \/ now - last_scan_ms >= cfg.scan_interval_ms
          THEN /\ last'.path # "skipped"
               /\ last_scan_ms' = now
               /\ (/\ list # <<>>
                   /\ list[1].exp # 0
                   /\ list[1].exp <= now) => list[1].key \notin hashmap'
          ELSE /\ last'.path = "skipped"
               /\ last_scan_ms' = last_scan_ms
               /\ list' = list
               /\ hashmap' = hashmap
               /\ item_count' = item_count
               /\ total_bytes' = total_bytes
               /\ owed' = owed ]_vars

\* a throttled call that left an expired head entry in place
C19_Witness ==
    /\ last.op = "maybe_scan" /\ last.path = "skipped"
    /\ cfg.scan_interval_ms > 0
    /\ list # <<>> /\ list[1].exp # 0 /\ list[1].exp <= now

(* C20: with scan_interval > 0 and a clock that never goes back, a sweep  *)
(* run by maybe_scan_and_clean at clock now, after one it ran at clock    *)
(* sweptAt, has now - sweptAt >= scan_interval.                           *)
C20_SweepsSpacedByInterval ==
    [][ (/\ "sweep" \in host.observe
         /\ cfg.scan_interval_ms > 0
         /\ sweptAt # -1
         /\ last'.op = "maybe_scan" /\ last'.path # "skipped")
        => now - sweptAt >= cfg.scan_interval_ms ]_vars

----------------------------------------------------------------------------
\* the positions of the calls of hook tag in the trace of one operation
At(trace, tag) == {i \in 1..Len(trace) : trace[i][1] = tag}

(* C21: the engine calls key_free only when key_copy is configured and    *)
(* value_free only when value_copy is configured, in every operation.     *)
C21_NoFreeOfBorrowed ==
    /\ At(lastTrace, "key_free") # {} => cfg.key_copy
    /\ At(lastTrace, "value_free") # {} => cfg.value_copy

(* C22: every on_delete call of an operation runs while its node is still  *)
(* in the hash and still counted, gets the stored value and byte size of   *)
(* the node, comes before any free of that key in the operation, and is    *)
(* followed at once by key_free and then value_free of that key, each when *)
(* configured.                                                             *)
C22_DeletionOrder ==
    [][/\ \A i \in At(lastTrace', "ondelete") :
          LET e == lastTrace'[i]
              k == e[2]
              before == Cardinality({j \in At(lastTrace', "ondelete") : j < i})
              added == IF last'.op = "insert" /\ last'.rc = 0 THEN 1 ELSE 0
              kf == IF cfg.key_free THEN 1 ELSE 0
          IN /\ e[5] = TRUE
             /\ e[6] = item_count + added - before
             /\ k \in hashmap => (e[3] = NodeOf(list, k).val /\ e[4] = NodeOf(list, k).size)
             /\ \A j \in 1..(i - 1) :
                   ~(lastTrace'[j][1] \in {"key_free", "value_free"} /\ lastTrace'[j][2] = k)
             /\ cfg.key_free => (Len(lastTrace') >= i + 1 /\ lastTrace'[i + 1] = <<"key_free", k>>)
             /\ cfg.value_free => (/\ Len(lastTrace') >= i + kf + 1
                                    /\ lastTrace'[i + kf + 1] = <<"value_free", k>>)
             /\ k \notin hashmap'
       /\ \A j \in At(lastTrace', "value_free") :
             cfg.key_free => (j > 1 /\ lastTrace'[j - 1] = <<"key_free", lastTrace'[j][2]>>)
      ]_vars

\* a sweep removed one of two entries: on_delete saw both counted and got the
\* stored value, then came key_free and value_free
C22_Witness ==
    /\ last.op = "scan"
    /\ Len(lastTrace) >= 3
    /\ \E i \in At(lastTrace, "ondelete") :
          /\ lastTrace[i][3] = MaxVal
          /\ lastTrace[i][6] = 2
          /\ lastTrace[i + 1][1] = "key_free"
          /\ lastTrace[i + 2][1] = "value_free"

----------------------------------------------------------------------------
\* the keys other than k that the policy handed over as victims in a trace
EvictedOthers(trace, k) == {trace[i][2] : i \in At(trace, "pop")} \ {NULL, k}

(* C23: in every live state, a successful insert of an absent key followed *)
(* at once by a delete of that key leaves item_count and total_bytes as    *)
(* they were before the insert.                                            *)
C23_InsertDeleteRestores ==
    phase = "live" =>
       EveryInsert(LAMBDA k, v, b, t, x, f, o :
          o.rc = 0 =>
             LET d == flexcache_delete(o.m, k)
             IN /\ d.m.item_count = item_count
                /\ d.m.total_bytes = total_bytes)

(* C23 amended: after a successful insert of an absent key followed at     *)
(* once by a delete of that key, item_count and total_bytes are their      *)
(* values before the insert less the entries other than that key which the *)
(* insert evicted to enforce the limits; they are the values before the    *)
(* insert when it evicted no other entry.                                  *)
C23_InsertDeleteRestoresButEvictions ==
    phase = "live" =>
       EveryInsert(LAMBDA k, v, b, t, x, f, o :
          o.rc = 0 =>
             LET d == flexcache_delete(o.m, k)
                 others == EvictedOthers(o.m.trace, k)
                 lost == SelectSeq(list, LAMBDA n : n.key \in others)
             IN /\ k \notin hashmap
                /\ d.m.item_count = item_count - Len(lost)
                /\ d.m.total_bytes = total_bytes - SumSizes(lost)
                /\ k \notin d.m.hashmap
                /\ others = {} => (/\ d.m.item_count = item_count
                                   /\ d.m.total_bytes = total_bytes))

\* the cache holds item_max entries after an insert that evicted one; the
\* insert of another absent key evicts again and the delete then finds the key
C23_Witness ==
    /\ cfg.item_max = LimItems /\ item_count = LimItems
    /\ last.op = "insert" /\ last.rc = 0 /\ last.gone = 1
    /\ \E k \in 1..host.nkeys :
          \E o \in flexcache_insert(Cur, k, 1, 1, 0, 0, "none") :
             o.rc = 0 /\ EvictedOthers(o.m.trace, k) # {} /\ flexcache_delete(o.m, k).rc = 0

----------------------------------------------------------------------------
\* the hook calls of the deletion pipeline for node n, as configured
Pipeline(n, count) ==
    (IF cfg.ondelete THEN <<(<<"ondelete", n.key, n.val, n.size, TRUE, count>>)>> ELSE <<>>)
    \o (IF cfg.key_free THEN <<(<<"key_free", n.key>>)>> ELSE <<>>)
    \o (IF cfg.value_free THEN <<(<<"value_free", n.key>>)>> ELSE <<>>)

(* C24: a delete of a present key returns 0, runs the deletion pipeline    *)
(* for that entry alone and leaves the other entries as they were, in the  *)
(* same order; a delete of an absent key returns -1, calls no hook and     *)
(* changes nothing.                                                        *)
C24_DeleteExactlyOne ==
    [][last'.op = "delete" =>
         LET k == last'.key
         IN IF k \in hashmap
            THEN /\ last'.rc = 0
                 /\ list' = SelectSeq(list, LAMBDA n : n.key # k)
                 /\ hashmap' = hashmap \ {k}
                 /\ item_count' = item_count - 1
                 /\ total_bytes' = total_bytes - NodeOf(list, k).size
                 /\ lastTrace' = Pipeline(NodeOf(list, k), item_count)
            ELSE /\ last'.rc = -1
                 /\ lastTrace' = <<>>
                 /\ list' = list
                 /\ hashmap' = hashmap
                 /\ item_count' = item_count
                 /\ total_bytes' = total_bytes
                 /\ owed' = owed /\ liveK' = liveK /\ liveV' = liveV ]_vars

\* the middle one of three entries was deleted
C24_Witness ==
    /\ last.op = "delete" /\ last.rc = 0 /\ last.key = 2
    /\ [i \in 1..Len(list) |-> list[i].key] = <<1, 3>>
    /\ Len(lastTrace) = 3

----------------------------------------------------------------------------
(* C25: no step other than a sweep, a destroy or a get of that key removes *)
(* an entry unless the step is a delete of that key or the policy named    *)
(* the entry as a victim; with item_max = 0 and byte_max = 0 an expired    *)
(* entry stays in the list and the hash, unchanged and counted, across     *)
(* every insert, and every get and delete of another key.                  *)
C25_ExpiryOnlyByGetOrSweep ==
    [][last'.op \in {"insert", "get", "delete", "set_policy", "tick"} =>
         /\ hashmap \ hashmap' \subseteq
               (IF last'.op \in {"get", "delete"} THEN {last'.key} ELSE {})
               \cup {lastTrace'[i][2] : i \in At(lastTrace', "pop")}
         /\ \A k \in hashmap :
               (/\ cfg.item_max = 0 /\ cfg.byte_max = 0
                /\ NodeOf(list, k).exp # 0 /\ NodeOf(list, k).exp <= now
                /\ last'.key # k)
               => /\ k \in hashmap'
                  /\ \E i \in 1..Len(list') : list'[i] = NodeOf(list, k)
                  /\ item_count' = Len(list')
                  /\ total_bytes' = SumSizes(list') ]_vars

\* an insert of another key has just run with an expired entry in the cache
C25_Witness ==
    /\ cfg.item_max = 0 /\ cfg.byte_max = 0
    /\ last.op = "insert" /\ last.rc = 0
    /\ \E k \in hashmap :
          /\ k # last.key
          /\ NodeOf(list, k).exp # 0 /\ NodeOf(list, k).exp <= now

----------------------------------------------------------------------------
(* C26: with item_max = 0 and byte_max = 0 no operation calls the policy's *)
(* pop; every successful insert adds its entry and removes none, whatever  *)
(* the byte sizes, and a sweep removes only entries that are expired.      *)
C26_NoLimitsNoEviction ==
    /\ []((cfg.item_max = 0 /\ cfg.byte_max = 0) => At(lastTrace, "pop") = {})
    /\ [][(cfg.item_max = 0 /\ cfg.byte_max = 0) =>
            /\ (last'.op = "insert" /\ last'.rc = 0)
                  => /\ hashmap' = hashmap \cup {last'.key}
                     /\ item_count' = item_count + 1
                     /\ list' = list \o <<list'[Len(list')]>>
                     /\ last'.gone = 0
            /\ last'.op \in {"scan", "maybe_scan"}
                  => \A k \in hashmap \ hashmap' :
                        NodeOf(list, k).exp # 0 /\ NodeOf(list, k).exp <= now ]_vars

\* two entries of the largest byte size are held and nothing was evicted
C26_Witness ==
    /\ cfg.item_max = 0 /\ cfg.byte_max = 0
    /\ last.op = "insert" /\ last.rc = 0
    /\ item_count = 2 /\ total_bytes = 2 * MaxSize

----------------------------------------------------------------------------
(* C27: a set_policy_hooks step installs the given touch and pop hooks and *)
(* changes nothing else: the list with every node's key, value, byte size  *)
(* and expiry, the hash, item_count, total_bytes, the limits and the other *)
(* hooks, last_scan and the clock stay as they were, and no hook is called.*)
C27_SetPolicyFrame ==
    [][last'.op = "set_policy" =>
         /\ touch_fn' = last'.path /\ pop_fn' = last'.path
         /\ list' = list
         /\ hashmap' = hashmap
         /\ item_count' = item_count
         /\ total_bytes' = total_bytes
         /\ cfg' = cfg
         /\ last_scan_ms' = last_scan_ms
         /\ now' = now
         /\ owed' = owed /\ liveK' = liveK /\ liveV' = liveV
         /\ lastTrace' = <<>>
         /\ phase' = phase ]_vars

\* the policy was switched from LRU to FIFO over two entries, after a sweep at
\* clock 1
C27_Witness ==
    /\ last.op = "set_policy" /\ host.policy0 = "lru"
    /\ touch_fn = "fifo" /\ pop_fn = "fifo"
    /\ item_count = 2
    /\ last_scan_ms = 1

----------------------------------------------------------------------------
\* the limits are exceeded in the state after the step
OverLimit ==
    \/ cfg.item_max # 0 /\ item_count > cfg.item_max
    \/ cfg.byte_max # 0 /\ total_bytes > cfg.byte_max

(* C28: in every operation the enforcement loop calls pop at most once per *)
(* entry held plus once, each pop that returns a node removes exactly that *)
(* one entry, and a pop that returns no node is the last thing the         *)
(* operation does; with no pop hook installed pop is never called and      *)
(* nothing is removed.  An insert of an absent key still returns 0 and     *)
(* keeps its entry, and an operation that enforces the limits leaves the   *)
(* cache over its limit only when no pop hook is installed or the last pop *)
(* returned no node.                                                       *)
C28_EnforcementTerminates ==
    [][last'.op \in {"insert", "scan", "maybe_scan"} /\ phase' = "live" =>
         LET pops == At(lastTrace', "pop")
             victims == {i \in pops : lastTrace'[i][2] # NULL}
             added == IF last'.op = "insert" /\ last'.rc = 0 THEN 1 ELSE 0
             swept == IF last'.op = "insert" THEN 0
                      ELSE Cardinality({i \in At(lastTrace', "visit") :
                              LET n == NodeOf(list, lastTrace'[i][2])
                              IN n.exp # 0 /\ n.exp <= now})
         IN /\ Cardinality(pops) <= Len(list) + added + 1
            /\ item_count' = item_count + added - swept - Cardinality(victims)
            /\ \A i \in victims : lastTrace'[i][2] \notin hashmap'
            /\ \A i \in pops \ victims : i = Len(lastTrace')
            /\ pop_fn = "null" => pops = {}
            /\ (pop_fn = "null" /\ last'.op = "insert" /\ last'.rc = 0)
                  => list' = list \o <<list'[Len(list')]>>
            /\ (last'.op = "insert" /\ last'.key # NULL /\ last'.key \notin hashmap)
                  => last'.rc = 0
            /\ (OverLimit' /\ (last'.op = "insert" => last'.rc = 0))
                  => (pop_fn = "null" \/ pops \ victims # {}) ]_vars

\* no policy is installed and an insert returned 0 with two entries under
\* item_max 1
C28_Witness ==
    /\ pop_fn = "null" /\ cfg.item_max = 1
    /\ last.op = "insert" /\ last.rc = 0
    /\ item_count = 2

----------------------------------------------------------------------------
(* C29: every sweep that runs comes to its end without reading through a   *)
(* null or freed node, and has then examined every node that was in the    *)
(* list when it started, unless the list has become empty.                 *)
C29_SweepVisitsAll ==
    [][(last'.op \in {"scan", "maybe_scan"} /\ last'.path # "skipped") =>
         /\ last'.path = "ran"
         /\ \/ list' = <<>>
            \/ KeysOf(list) \subseteq {lastTrace'[i][2] : i \in At(lastTrace', "visit")}
      ]_vars

----------------------------------------------------------------------------
(* C30: an operation calls the touch hook only as a get of a key that is   *)
(* present and not expired, once and as its only hook call; it calls the   *)
(* pop hook only as a successful insert or a sweep that ran, under a       *)
(* nonzero limit, after the sweep has finished its visits and never        *)
(* between the on_delete and the frees of a node.  A delete, a destroy, a  *)
(* get of an absent key and a get of an expired key call neither.          *)
C30_PolicyHooksOnlyWhereDue ==
    [][LET touches == At(lastTrace', "touch")
           pops == At(lastTrace', "pop")
       IN /\ touches # {} =>
                /\ last'.op = "get"
                /\ last'.key \in hashmap
                /\ ~(/\ NodeOf(list, last'.key).exp # 0
                     /\ NodeOf(list, last'.key).exp <= now)
                /\ lastTrace' = <<(<<"touch", last'.key>>)>>
          /\ pops # {} =>
                /\ \/ last'.op = "insert" /\ last'.rc = 0
                   \/ last'.op \in {"scan", "maybe_scan"} /\ last'.path # "skipped"
                /\ cfg.item_max # 0 \/ cfg.byte_max # 0
                /\ \A i \in pops, j \in At(lastTrace', "visit") : j < i
                /\ \A i \in pops :
                      i > 1 => lastTrace'[i - 1][1] \in
                                  (IF cfg.value_free THEN {"value_free"}
                                   ELSE IF cfg.key_free THEN {"key_free"}
                                   ELSE IF cfg.ondelete THEN {"ondelete"}
                                   ELSE {"pop"})
                                  \cup {"visit", "key_copy", "value_copy"}
          /\ last'.op \in {"delete", "destroy", "set_policy", "tick"}
                => (touches = {} /\ pops = {})
          /\ (last'.op = "get" /\ last'.path # "hit") => (touches = {} /\ pops = {})
      ]_vars

\* a get found its entry expired and ran the deletion pipeline, with the LRU
\* hooks installed
C30_Witness ==
    /\ last.op = "get" /\ last.path = "expired"
    /\ touch_fn = "lru" /\ pop_fn = "lru"
    /\ Len(lastTrace) = 3
    /\ item_count = 1

----------------------------------------------------------------------------
\* rng values, up to several times the largest item_count
RngValues == 0..(2 * MaxKeys + MaxRng)

(* C31: on a non-empty cache random_pop returns, for every rng value, the  *)
(* node at position (rng mod item_count) counted from the head, which is a *)
(* member of the cache; on an empty cache it returns no node; and an       *)
(* operation under the Random policy evicts exactly the nodes its pops     *)
(* returned, each a member when popped.                                    *)
C31_RandomPopPicksMember ==
    /\ [](phase = "live" =>
            \A r \in RngValues :
               IF item_count = 0 THEN random_pop(Cur, r) = NULL
               ELSE /\ random_pop(Cur, r) = list[(r % item_count) + 1].key
                    /\ random_pop(Cur, r) \in hashmap)
    /\ [][(pop_fn = "random" /\ phase' = "live"
            /\ last'.op \in {"insert", "scan", "maybe_scan"}) =>
            LET victims == {lastTrace'[i][2] : i \in At(lastTrace', "pop")}
                swept == {lastTrace'[i][2] : i \in At(lastTrace', "visit")}
            IN /\ NULL \notin victims
               /\ victims \subseteq hashmap \cup {last'.key}
               /\ victims \cap hashmap' = {}
               /\ hashmap \ hashmap' \subseteq victims \cup swept ]_vars

\* a sweep under the Random policy found two entries under item_max 1 and
\* evicted the one its pop returned
C31_Witness ==
    /\ pop_fn = "random" /\ cfg.item_max = 1
    /\ last.op = "scan"
    /\ At(lastTrace, "pop") # {}
    /\ item_count = 1

----------------------------------------------------------------------------
\* the keys of a list from head to tail
KeySeq(l) == [i \in 1..Len(l) |-> l[i].key]

(* C32: a successful insert leaves its node at the tail unless the insert  *)
(* evicted it again; bcache_insert of a key already present changes        *)
(* neither the order nor the counters; every step other than a get hit     *)
(* keeps the nodes that stay in their relative order; and where no touch   *)
(* moves a node the list from head to tail is the order of insertion of    *)
(* the nodes still present.                                                *)
C32_ListKeepsInsertionOrder ==
    /\ [](phase = "live" =>
            /\ \A k \in hashmap, v \in 1..host.nvals, b \in host.sizes :
                  LET c == bcache_insert(Cur, [key |-> k, val |-> v, size |-> b, exp |-> 0])
                  IN /\ c.list = list /\ c.hashmap = hashmap
                     /\ c.item_count = item_count /\ c.total_bytes = total_bytes
            /\ ("insert" \in host.observe /\ touch_fn = "fifo") => KeySeq(list) = byInsert)
    /\ [][ /\ (last'.op = "insert" /\ last'.rc = 0 /\ last'.key \in hashmap')
                => list'[Len(list')].key = last'.key
           /\ (last'.op = "insert" /\ last'.rc # 0)
                => (list' = list /\ item_count' = item_count /\ total_bytes' = total_bytes)
           /\ ~(last'.op = "get" /\ last'.path = "hit")
                => SelectSeq(list, LAMBDA n : n.key \in hashmap')
                     = SelectSeq(list', LAMBDA n : n.key \in hashmap) ]_vars

\* three entries inserted in the order 2, 1, 3 (or 3, 1, 2 ...): the list is
\* not in key order and the last insert is at the tail
C32_Witness ==
    /\ last.op = "insert" /\ last.rc = 0
    /\ item_count = 3
    /\ list[3].key = last.key
    /\ list[1].key > list[2].key
    /\ KeySeq(list) = byInsert

----------------------------------------------------------------------------
\* list l without the node of key k
Others(l, k) == SelectSeq(l, LAMBDA n : n.key # k)

(* C33: for every node of the cache, bcache_move_front makes it the head   *)
(* and bcache_move_back the tail, with the other nodes in their relative   *)
(* order and the key set, item_count and total_bytes unchanged; on the     *)
(* head (tail) the list stays identical; and a get hit under LRU leaves    *)
(* the list that bcache_move_back gives.                                   *)
C33_MoveKeepsOthers ==
    /\ [](phase = "live" =>
            \A k \in hashmap :
               LET f == bcache_move_front(Cur, k)
                   b == bcache_move_back(Cur, k)
               IN /\ f.list = <<NodeOf(list, k)>> \o Others(list, k)
                  /\ b.list = Others(list, k) \o <<NodeOf(list, k)>>
                  /\ list[1].key = k => f.list = list
                  /\ list[Len(list)].key = k => b.list = list
                  /\ f.hashmap = hashmap /\ b.hashmap = hashmap
                  /\ f.item_count = item_count /\ b.item_count = item_count
                  /\ f.total_bytes = total_bytes /\ b.total_bytes = total_bytes)
    /\ [][(last'.op = "get" /\ last'.path = "hit" /\ touch_fn = "lru") =>
            /\ list' = Others(list, last'.key) \o <<NodeOf(list, last'.key)>>
            /\ hashmap' = hashmap
            /\ item_count' = item_count
            /\ total_bytes' = total_bytes ]_vars

\* a get hit under LRU has left its node at the tail of two, and moving it
\* to the front would change the list
C33_Witness ==
    /\ last.op = "get" /\ last.path = "hit" /\ touch_fn = "lru"
    /\ item_count = 2
    /\ list[2].key = last.key
    /\ bcache_move_front(Cur, last.key).list = <<list[2], list[1]>>

----------------------------------------------------------------------------
\* the container is as flexcache_init leaves it
Empty(c) == c.list = <<>> /\ c.hashmap = {} /\ c.item_count = 0 /\ c.total_bytes = 0

(* C34: a step that removes the only entry of the cache (a sweep finding   *)
(* it expired, a delete, a get finding it expired, an eviction) ends       *)
(* normally with list and hash empty and both counters 0, and so does an   *)
(* insert into the empty cache that evicts its own entry (an insert that  *)
(* evicts the only entry and keeps its own leaves one); a sweep over a     *)
(* single expired entry always removes it.  On the emptied cache every get *)
(* and delete misses, a sweep and a destroy remove nothing, and an insert  *)
(* of a valid key returns 0, as after flexcache_init.                      *)
C34_SingleEntryEmpties ==
    /\ [](list = <<>> =>
            /\ Empty(Cur)
            /\ phase = "live" =>
                  /\ \A k \in 1..host.nkeys :
                        /\ flexcache_get(Cur, k).rc = NULL /\ Empty(flexcache_get(Cur, k).m)
                        /\ flexcache_delete(Cur, k).rc = -1
                        /\ \A o \in flexcache_insert(Cur, k, 1, 1, 0, 0, "none") : o.rc = 0
                  /\ remove_expired(Cur, now) = Cur
                  /\ flexcache_destroy(Cur) = Cur)
    /\ [][ /\ (/\ Len(list) = 1 /\ list[1].key \notin hashmap'
               /\ ~(last'.op = "insert" /\ last'.key \in hashmap'))
                => /\ list' = <<>> /\ hashmap' = {}
                   /\ item_count' = 0 /\ total_bytes' = 0
                   /\ phase' \in {"live", "destroyed"}
           /\ (/\ Len(list) = 1
               /\ list[1].exp # 0 /\ list[1].exp <= now
               /\ last'.op \in {"scan", "maybe_scan"} /\ last'.path # "skipped")
                => (list' = <<>> /\ last'.path = "ran")
           /\ (list = <<>> /\ last'.op = "insert" /\ last'.rc = 0 /\ last'.gone > 0)
                => /\ list' = <<>> /\ hashmap' = {}
                   /\ item_count' = 0 /\ total_bytes' = 0 ]_vars

\* a sweep has found the only entry expired and emptied the cache
C34_Witness ==
    /\ last.op = "scan" /\ last.path = "ran" /\ last.gone = 1
    /\ lastTrace[1] = <<"visit", 1>>
    /\ Cardinality(At(lastTrace, "visit")) = 1
    /\ list = <<>> /\ item_count = 0

----------------------------------------------------------------------------
(* C35: with on_delete configured, the inserts of a key that have not yet  *)
(* had their on_delete number 1 while the key is present and 0 while it is *)
(* not, so no entry has the hook twice; within one operation the hook is   *)
(* called at most once per key, each time for a key that is in the hash at *)
(* the call; and a failed insert and a get hit call it not at all.         *)
C35_OnDeleteAtMostOnce ==
    /\ [](cfg.ondelete =>
            \A k \in DOMAIN owed : owed[k] = IF k \in hashmap THEN 1 ELSE 0)
    /\ [][LET calls == At(lastTrace', "ondelete")
          IN /\ \A i \in calls :
                   /\ lastTrace'[i][5] = TRUE
                   /\ lastTrace'[i][2] \in hashmap \cup {last'.key}
                   /\ lastTrace'[i][2] \notin hashmap'
                   /\ \A j \in calls : lastTrace'[j][2] = lastTrace'[i][2] => j = i
             /\ (last'.op = "insert" /\ last'.rc # 0) => calls = {}
             /\ (last'.op = "get" /\ last'.path = "hit") => calls = {}
             /\ Cardinality(calls) = (IF cfg.ondelete THEN last'.gone ELSE 0) ]_vars

\* an insert at item_max evicted one entry, whose on_delete ran once; the new
\* entry's is still to come
C35_Witness ==
    /\ cfg.ondelete /\ cfg.item_max = LimItems
    /\ last.op = "insert" /\ last.rc = 0 /\ last.gone = 1
    /\ Cardinality(At(lastTrace, "ondelete")) = 1
    /\ owed[last.key] = 1
    /\ \E i \in At(lastTrace, "ondelete") : owed[lastTrace[i][2]] = 0

----------------------------------------------------------------------------
(* C36: a scan_and_clean step always sweeps and leaves last_scan_ms as it  *)
(* was; last_scan_ms changes only in maybe_scan_and_clean steps, so it is  *)
(* always the clock of the latest throttled sweep (0 before the first).    *)
C36_ScanIgnoresLastScan ==
    /\ []("sweep" \in host.observe =>
            last_scan_ms = IF sweptAt = -1 THEN 0 ELSE sweptAt)
    /\ [][ /\ last'.op = "scan" => (last_scan_ms' = last_scan_ms /\ last'.path # "skipped")
           /\ last_scan_ms' # last_scan_ms => last'.op = "maybe_scan" ]_vars

\* a scan_and_clean ran at clock 2, one tick after the throttled sweep at
\* clock 1 and inside its interval, and last_scan_ms is still 1
C36_Witness ==
    /\ cfg.scan_interval_ms = Interval + 1
    /\ last.op = "scan" /\ last.path = "ran"
    /\ sweptAt = 1 /\ last_scan_ms = 1 /\ now = 2

----------------------------------------------------------------------------
\* the keys whose entries are past their expiry at the current clock
ExpiredKeys == {k \in hashmap : NodeOf(list, k).exp # 0 /\ NodeOf(list, k).exp <= now}

\* every insert of a key whose entry is expired fails as a duplicate and leaves
\* the container, the old entry included, as it is
ExpiredStaysDuplicate ==
    phase = "live" =>
       EveryInsert(LAMBDA k, v, b, t, x, f, o :
          (k \in ExpiredKeys /\ b >= 0 /\ f = "none") =>
             (o.rc = -1 /\ SameContainer(o)))

(* C37: an insert of a key whose entry is expired and still in the cache   *)
(* returns -1 and leaves the entry and the container as they were; while   *)
(* the cache lives such an entry leaves it only in a get or a delete of    *)
(* that key or in a sweep.                                                 *)
C37_InsertNoLazyExpiry ==
    /\ []ExpiredStaysDuplicate
    /\ [][\A k \in ExpiredKeys :
            (k \notin hashmap' /\ phase' = "live") =>
               \/ last'.op \in {"get", "delete"} /\ last'.key = k
               \/ last'.op \in {"scan", "maybe_scan"} ]_vars

(* C37 amended: an insert of a key whose entry is expired and still in the *)
(* cache returns -1 and leaves the entry and the container as they were;   *)
(* while the cache lives such an entry leaves it only in a get or a delete *)
(* of that key, in a sweep, or as the victim of a capacity eviction, which *)
(* an insert of another key can cause.                                     *)
C37_InsertNoLazyExpiryButEviction ==
    /\ []ExpiredStaysDuplicate
    /\ [][\A k \in ExpiredKeys :
            (k \notin hashmap' /\ phase' = "live") =>
               \/ last'.op \in {"get", "delete"} /\ last'.key = k
               \/ last'.op \in {"scan", "maybe_scan"}
               \/ /\ last'.op = "insert" /\ last'.key # k /\ last'.rc = 0
                  /\ \E i \in At(lastTrace', "pop") : lastTrace'[i][2] = k ]_vars

\* an insert has just failed as a duplicate of an entry that is expired
C37_Witness ==
    /\ last.op = "insert" /\ last.path = "duplicate" /\ last.rc = -1
    /\ last.key \in ExpiredKeys

----------------------------------------------------------------------------
(* C38: with byte_max not 0 and the LRU or FIFO policy, every insert of an *)
(* absent key with a byte size above byte_max returns 0 and leaves the     *)
(* cache empty: the policy was asked for, and the insert removed, every    *)
(* entry held before and then the new entry itself, whose on_delete ran    *)
(* (when configured) with the size given.                                  *)
C38_OversizedInsertEvictsAll ==
    (phase = "live" /\ cfg.byte_max # 0 /\ pop_fn \in {"lru", "fifo"}) =>
       EveryInsert(LAMBDA k, v, b, t, x, f, o :
          (k # NULL /\ k \notin hashmap /\ b > cfg.byte_max /\ f = "none") =>
             /\ o.rc = 0
             /\ o.m.list = <<>> /\ o.m.hashmap = {}
             /\ o.m.item_count = 0 /\ o.m.total_bytes = 0
             /\ o.m.gone = item_count + 1
             /\ {e[2] : e \in {o.m.trace[i] : i \in At(o.m.trace, "pop")}}
                   \ {NULL} = hashmap \cup {k}
             /\ cfg.ondelete =>
                   \E i \in At(o.m.trace, "ondelete") :
                      /\ o.m.trace[i][2] = k /\ o.m.trace[i][3] = v /\ o.m.trace[i][4] = b
                      /\ \A j \in At(o.m.trace, "ondelete") : j <= i)

\* an insert larger than byte_max has emptied a cache of two entries, its own
\* entry going last
C38_Witness ==
    /\ cfg.byte_max = LimBytes - 1
    /\ last.op = "insert" /\ last.rc = 0 /\ last.gone = 3
    /\ list = <<>> /\ total_bytes = 0
    /\ \E i \in At(lastTrace, "ondelete") :
          lastTrace[i][2] = last.key /\ lastTrace[i][4] = LimBytes

----------------------------------------------------------------------------
(* C39: with item_max at least 1, byte_max 0 and the LRU or FIFO policy,   *)
(* every successful insert leaves its key in the cache, at the tail: no    *)
(* pop of the insert returns the new entry, the cache ends within          *)
(* item_max, and an insert into a cache that was within item_max evicts at *)
(* most one entry.                                                         *)
C39_NewEntrySurvives ==
    (phase = "live" /\ cfg.item_max >= 1 /\ cfg.byte_max = 0
       /\ pop_fn \in {"lru", "fifo"}) =>
       EveryInsert(LAMBDA k, v, b, t, x, f, o :
          o.rc = 0 =>
             /\ k \in o.m.hashmap
             /\ o.m.list[Len(o.m.list)].key = k
             /\ \A i \in At(o.m.trace, "pop") : o.m.trace[i][2] \in hashmap
             /\ o.m.item_count <= cfg.item_max
             /\ item_count <= cfg.item_max => o.m.gone <= 1
             /\ o.m.gone = IF item_count + 1 > cfg.item_max
                           THEN item_count + 1 - cfg.item_max ELSE 0)

\* FIFO was installed over three entries under item_max 1 and an insert has
\* then evicted two entries and kept its own
C39_Witness ==
    /\ cfg.item_max = 1 /\ cfg.byte_max = 0 /\ pop_fn = "fifo"
    /\ last.op = "insert" /\ last.rc = 0 /\ last.gone = 2
    /\ KeySeq(list) = <<last.key>>

----------------------------------------------------------------------------
\* the containers on which an operation of the current state runs
\* enforce_limits: the current one with a new node linked in (an insert), and
\* the current one after remove_expired (a sweep that came to its end)
BeforeEnforcement ==
    { bcache_insert(Cur, [key |-> k, val |-> v, size |-> b,
                          exp |-> entry_expiry(now, t, 0)]) :
        k \in (1..host.nkeys) \ hashmap, v \in 1..host.nvals,
        b \in host.sizes \ {-1}, t \in 0..host.maxttl }
    \cup (IF remove_expired(Cur, now).ub THEN {} ELSE {remove_expired(Cur, now)})

(* C40: from every state, each insert and each sweep ends in the same      *)
(* container, with the same victims evicted in the same order, whether the *)
(* LRU or the FIFO hooks are installed, and the installed one of the two   *)
(* gives exactly that; a get that is not a hit and a delete call no policy *)
(* hook.  So two caches that differ only in LRU against FIFO stay equal    *)
(* under the same inserts, deletes and sweeps until a get hits.            *)
C40_LruFifoAgreeWithoutHits ==
    /\ [](phase = "live" =>
            \A c \in BeforeEnforcement :
               /\ EnforceAs("lru", c) = EnforceAs("fifo", c)
               /\ pop_fn \in {"lru", "fifo"} => enforce_limits(c) = EnforceAs(pop_fn, c))
    /\ [][ /\ (last'.op = "delete" \/ (last'.op = "get" /\ last'.path # "hit"))
                => (At(lastTrace', "touch") = {} /\ At(lastTrace', "pop") = {})
           /\ (last'.op = "get" /\ last'.path = "hit" /\ touch_fn = "fifo")
                => list' = list ]_vars

\* the cache was built under LRU, FIFO was installed, and an insert at
\* item_max has evicted the head; a hit on the present head would now move it
\* under LRU and not under FIFO
C40_Witness ==
    /\ host.policy0 = "lru" /\ pop_fn = "fifo" /\ cfg.item_max = LimItems
    /\ last.op = "insert" /\ last.rc = 0 /\ last.gone = 1
    /\ item_count = LimItems
    /\ lru_touch(Cur, list[1].key).list # fifo_touch(Cur, list[1].key).list

====
